---------------------------- MODULE Spec2Model ----------------------------
(***************************************************************************)
(* A state-machine model of numdifftools/nd_cstep.py: the step generators, *)
(* the base-step policy, the finite-difference stencils, the extrapolation *)
(* front end and the public call of the derivative classes.                *)
(*                                                                         *)
(* Numbers.  The program computes in IEEE-754 binary64.  The model keeps   *)
(* the structure of that arithmetic (round to nearest, ties to even,       *)
(* gradual underflow, a NaN) at a reduced width: a number is an integer, *)
(* counted in units of the smallest subnormal, that has at most MantBits   *)
(* significant bits; 1.0 is 2^OneExp units.  The exponent range is not     *)
(* bounded above: the inputs are drawn from sets that stay far below the   *)
(* overflow threshold, so no infinity arises.                              *)
(***************************************************************************)
EXTENDS Integers, Sequences, FiniteSets, TLC

\* Width of the significand of the reduced floating-point format.
MantBits == 5

\* 1.0 is 2^OneExp units of the smallest subnormal.
OneExp == 8

ONE == 2 ^ OneExp

\* EPS = np.MachAr().eps: the gap between 1.0 and the next number.
EPS == ONE \div (2 ^ (MantBits - 1))

\* np.NaN, kept apart from every number of the format.
NaN == 0 - (2 ^ 30)

IsNaN(a) == a = NaN

AbsInt(n) == IF n < 0 THEN 0 - n ELSE n

RECURSIVE BitLen(_)
\* Number of significant bits of a natural number (0 for 0).
BitLen(n) == IF n = 0 THEN 0 ELSE 1 + BitLen(n \div 2)

\* Spacing of the format at magnitude q (1 in the subnormal range).
Ulp(q) == IF BitLen(q) > MantBits THEN 2 ^ (BitLen(q) - MantBits) ELSE 1

\* Round the rational num/den (den > 0) to the nearest number of the
\* format, ties to even: what one IEEE operation does to its exact result.
RoundRat(num, den) ==
    LET a    == AbsInt(num)
        u    == Ulp(a \div den)
        d    == den * u
        m    == a \div d
        rem  == a % d
        up   == IF 2 * rem > d THEN m + 1
                ELSE IF 2 * rem < d THEN m
                ELSE IF m % 2 = 0 THEN m ELSE m + 1
    IN  IF num < 0 THEN 0 - (up * u) ELSE up * u

\* A number of the format: rounding leaves it alone.
IsFloat(a) == IsNaN(a) \/ RoundRat(a, 1) = a

FAdd(a, b) == IF IsNaN(a) \/ IsNaN(b) THEN NaN ELSE RoundRat(a + b, 1)

FSub(a, b) == IF IsNaN(a) \/ IsNaN(b) THEN NaN ELSE RoundRat(a - b, 1)

FMul(a, b) == IF IsNaN(a) \/ IsNaN(b) THEN NaN ELSE RoundRat(a * b, ONE)

\* Division; the model never divides by zero (steps handed on are nonzero).
FDiv(a, b) ==
    IF IsNaN(a) \/ IsNaN(b) \/ b = 0 THEN NaN
    ELSE IF b < 0 THEN RoundRat((0 - a) * ONE, 0 - b)
    ELSE RoundRat(a * ONE, b)

FAbs(a) == IF IsNaN(a) THEN NaN ELSE AbsInt(a)

\* np.maximum of two numbers (NaN propagates).
FMax(a, b) == IF IsNaN(a) \/ IsNaN(b) THEN NaN ELSE IF a >= b THEN a ELSE b

RECURSIVE Gcd(_, _)
Gcd(a, b) == IF b = 0 THEN a ELSE Gcd(b, a % b)

\* r ** k for a float r > 0 and an integer k, correctly rounded.
FPow(r, k) ==
    LET g == Gcd(r, ONE)
        p == r \div g
        q == ONE \div g
    IN  IF k >= 0 THEN RoundRat((p ^ k) * ONE, q ^ k)
        ELSE RoundRat((q ^ (0 - k)) * ONE, p ^ (0 - k))


\* A value given in millionths (a real constant of the mathematics library),
\* rounded into the format.
FromMicro(m) == RoundRat(m * ONE, 1000000)

RECURSIVE IRoot(_, _, _, _)
\* The largest y in lo..hi with y^n <= T, by bisection (lo^n <= T).
IRoot(T, n, lo, hi) ==
    IF lo >= hi THEN lo
    ELSE LET mid == (lo + hi + 1) \div 2
         IN  IF mid ^ n <= T THEN IRoot(T, n, mid, hi)
             ELSE IRoot(T, n, lo, mid - 1)

\* Correctly rounded (v/ONE)^(k/n) for a float v >= 0 and integers 0 <= k <= n,
\* 1 <= n <= 3: the value 10 ** (k/n * log10(v)) that np.logspace produces.
RootPow(v, k, n) ==
    IF k = n THEN v ELSE
    LET T    == (v ^ k) * (ONE ^ (n - k))
        top  == IF n = 1 THEN T ELSE IF n = 2 THEN 46340 ELSE 1290
        fl   == IRoot(T, n, 0, top)
        u    == Ulp(fl)
        lo   == (fl \div u) * u
        mid2 == 2 * lo + u
        c    == IF u = 1 THEN mid2 ^ n - (2 ^ n) * T
                ELSE (mid2 \div 2) ^ n - T
    IN  IF fl ^ n = T /\ lo = fl THEN fl
        ELSE IF c < 0 THEN lo + u
        ELSE IF c > 0 THEN lo
        ELSE IF (lo \div u) % 2 = 0 THEN lo ELSE lo + u

(***************************************************************************)
(* Arrays.  An ndarray is a record of its shape (<<>> for a 0-d array,     *)
(* <<n>> for a vector) and its elements in order.  A step configuration    *)
(* (steps, base_step, step_min) is None, a Python scalar or an array.      *)
(***************************************************************************)
Arr0(v) == [kind |-> "array", shape |-> <<>>, data |-> <<v>>]

Arr1(s) == [kind |-> "array", shape |-> <<Len(s)>>, data |-> s]

NoneVal == [kind |-> "None", shape |-> <<>>, data |-> <<>>]

Scalar(v) == [kind |-> "scalar", shape |-> <<>>, data |-> <<v>>]

ValueError == [kind |-> "ValueError", shape |-> <<>>, data |-> <<>>]

\* (np.abs(h) > 0).all()
AllNonZero(h) == \A k \in 1..Len(h.data) : FAbs(h.data[k]) > 0

\* Mutant of _make_exact: the step is returned as it came.
MakeExactIdentity(h) == h

\* _make_exact on one element: (h + 1.0) - 1.0.
MakeExactElt(h) == FSub(FAdd(h, ONE), ONE)

\* _make_exact(h) on an array.
MakeExact(h) ==
    [kind |-> "array", shape |-> h.shape,
     data |-> [k \in 1..Len(h.data) |-> MakeExactElt(h.data[k])]]

\* (10 * EPS) ** (1. / scale), scale in 1..3, and
\* (10 * EPS) ** (1. / (scale + 1.5)): the real values, in millionths, for the
\* two widths of the format the model is run at.
TenEpsRootMicro ==
    IF MantBits = 5 THEN <<625000, 790569, 854988>>
    ELSE <<312500, 559017, 678604>>

TenEpsRoot15Micro ==
    IF MantBits = 5 THEN <<828614, 874339, 900824>>
    ELSE <<627972, 717251, 772226>>

TenEpsRoot(scale) == FromMicro(TenEpsRootMicro[scale])

TenEpsRoot15(scale) == FromMicro(TenEpsRoot15Micro[scale])

\* log(1 + k) for k = 0..4, in millionths.
Log1pMicro == <<0, 693147, 1098612, 1386294, 1609438>>

\* np.log1p(a) for a = 0.0, 1.0, 2.0, 3.0, 4.0 (the magnitudes of the
\* evaluation points of the model).
Log1p(a) == IF IsNaN(a) THEN NaN ELSE FromMicro(Log1pMicro[(a \div ONE) + 1])

\* The literal 0.1.
Tenth == RoundRat(ONE, 10)

\* The default step of one coordinate:
\* (10 * EPS) ** (1. / scale) * np.maximum(np.log1p(np.abs(x)), 0.1).
DefaultStepElt(xk, scale) ==
    FMul(TenEpsRoot(scale), FMax(Log1p(FAbs(xk)), Tenth))

\* Mutant of _default_base_step: the shape test is dropped.
DefaultBaseStepNoShapeTest(x, scale, epsilon) ==
    IF epsilon.kind = "None"
    THEN [kind |-> "array", shape |-> x.shape,
          data |-> [k \in 1..Len(x.data) |-> DefaultStepElt(x.data[k], scale)]]
    ELSE IF epsilon.kind = "scalar"
    THEN [kind |-> "array", shape |-> x.shape,
          data |-> [k \in 1..Len(x.data) |-> FMul(ONE, epsilon.data[1])]]
    ELSE epsilon

\* _default_base_step(x, scale, epsilon): the step array, or ValueError.
DefaultBaseStep(x, scale, epsilon) ==
    IF epsilon.kind = "None"
    THEN [kind |-> "array", shape |-> x.shape,
          data |-> [k \in 1..Len(x.data) |-> DefaultStepElt(x.data[k], scale)]]
    ELSE IF epsilon.kind = "scalar"
    THEN [kind |-> "array", shape |-> x.shape,
          data |-> [k \in 1..Len(x.data) |-> FMul(ONE, epsilon.data[1])]]
    ELSE IF epsilon.shape # x.shape THEN ValueError
    ELSE epsilon

(***************************************************************************)
(* Complex numbers <<re, im>>, for the complex-step stencils, and the      *)
(* target functions of the model.                                          *)
(***************************************************************************)
Cx(a) == <<a, 0>>

CAdd(z, w) == <<FAdd(z[1], w[1]), FAdd(z[2], w[2])>>

CSub(z, w) == <<FSub(z[1], w[1]), FSub(z[2], w[2])>>

CMul(z, w) ==
    <<FSub(FMul(z[1], w[1]), FMul(z[2], w[2])),
      FAdd(FMul(z[1], w[2]), FMul(z[2], w[1]))>>

\* Comparisons of numbers: false when either side is NaN.
FLt(a, b) == ~IsNaN(a) /\ ~IsNaN(b) /\ a < b

FLeq(a, b) == ~IsNaN(a) /\ ~IsNaN(b) /\ a <= b

\* The target functions f of the model, on one element: z**2 and z**3.
FnElt(fn, z) == IF fn = "square" THEN CMul(z, z) ELSE CMul(CMul(z, z), z)

\* f applied to an array point (a sequence of complex elements), elementwise.
FnArr(fn, pt) == [k \in 1..Len(pt) |-> FnElt(fn, pt[k])]

Functions == {"square", "cube"}

(***************************************************************************)
(* State.                                                                  *)
(*   gen      the step source bound to the object (a StepsGenerator, a     *)
(*            StepsGenerator2 or the _step_generator closure that          *)
(*            _make_callable wraps around a plain steps value) together    *)
(*            with the frame of its running generator: pc, delta, the loop *)
(*            index i and the logspace multipliers steps                   *)
(*   xi       the evaluation point, np.asarray(x)                          *)
(*   scale    the scale handed to the step source                          *)
(*   yielded  the steps the generator has yielded, in order                *)
(*   cands    the values h the generator's loop has computed, in order,    *)
(*            each with whether it was yielded (out)                       *)
(*   call     the frame of one public call _Derivative.__call__ of a       *)
(*            Derivative object: the object's method, f (fn) and           *)
(*            full_output; where the call stands (pc); the step h of the   *)
(*            stencil under evaluation and the values of f it has obtained *)
(*            (fvals); the raw estimates collected (results); the number   *)
(*            of evaluations of f made (nevals) and the points of these    *)
(*            evaluations (evals); the evaluation at which f               *)
(*            raises (failAt, 0 for never); what _extrapolate returned     *)
(*            (extr) and what the call returned or raised (ret)            *)
(***************************************************************************)
VARIABLES gen, xi, scale, yielded, cands, call

vars == <<gen, xi, scale, yielded, cands, call>>

\* Largest num_steps of a generator of the model.
MaxNumSteps == 2

\* The step source as constructed (StepsGenerator.__init__,
\* StepsGenerator2.__init__, _make_callable), its generator not yet started.
NewGen(cls, base, n, ratio, off, exact, smax) ==
    [cls |-> cls, base_step |-> base, num_steps |-> n, step_ratio |-> ratio,
     offset |-> off, use_exact_steps |-> exact, step_max |-> smax,
     pc |-> "start", delta |-> NoneVal, i |-> 0, steps |-> <<>>]

\* StepsGenerator._default_base_step(xi, scale).
SGDefaultBaseStep(g, x, sc) ==
    LET delta == DefaultBaseStep(x, sc, g.base_step)
    IN  IF delta.kind = "ValueError" THEN delta
        ELSE IF g.use_exact_steps THEN MakeExact(delta)
        ELSE delta

\* np.logspace(0, -np.log10(step_min) + np.log10(step_max), num_steps)[::-1]:
\* the multipliers (step_max/step_min)^(k/(num_steps-1)), largest k first.
LogSpaceReversed(smin, smax, n) ==
    LET r == FDiv(smax, smin)
    IN  IF n = 1 THEN <<ONE>>
        ELSE [j \in 1..n |-> RootPow(r, n - j, n - 1)]

\* step_min of StepsGenerator2.__call__ after its default is filled in
\* (the object keeps step_min in the field base_step of the model).
StepMinOf(g, sc) ==
    IF g.base_step.kind = "None" THEN TenEpsRoot(sc) ELSE g.base_step.data[1]

\* step_max of StepsGenerator2.__call__ after its default is filled in
\* (step_max = 0 in the model stands for None).
StepMaxOf(g, sc) == IF g.step_max = 0 THEN TenEpsRoot15(sc) ELSE g.step_max

\* The generator body up to the head of its loop: the first next() of
\* StepsGenerator.__call__, StepsGenerator2.__call__ or _step_generator.
GenCall(g, x, sc) ==
    IF g.cls = "StepsGenerator"
    THEN LET delta == SGDefaultBaseStep(g, x, sc)
         IN  IF delta.kind = "ValueError" THEN [g EXCEPT !.pc = "raised"]
             ELSE [g EXCEPT !.pc = "loop", !.delta = delta, !.i = g.num_steps]
    ELSE IF g.cls = "StepsGenerator2"
    THEN LET delta == DefaultBaseStep(x, sc, g.base_step)
             smin  == StepMinOf(g, sc)
             smax  == StepMaxOf(g, sc)
         IN  IF delta.kind = "ValueError" THEN [g EXCEPT !.pc = "raised"]
             ELSE IF g.num_steps = 0 THEN [g EXCEPT !.pc = "done", !.delta = delta]
             ELSE [g EXCEPT !.pc = "loop", !.delta = delta, !.i = 1,
                            !.steps = LogSpaceReversed(smin, smax, g.num_steps)]
    ELSE LET delta == DefaultBaseStep(x, sc, g.base_step)
         IN  IF delta.kind = "ValueError" THEN [g EXCEPT !.pc = "raised"]
             ELSE [g EXCEPT !.pc = "loop", !.delta = delta]

\* Mutant of GenCandidate: StepsGenerator counts i upwards (smallest first).
GenCandidateAscending(g) ==
    IF g.cls = "StepsGenerator"
    THEN LET m == FPow(g.step_ratio, (g.num_steps - g.i) + g.offset)
         IN  [kind |-> "array", shape |-> g.delta.shape,
              data |-> [k \in 1..Len(g.delta.data) |-> FMul(g.delta.data[k], m)]]
    ELSE IF g.cls = "StepsGenerator2"
    THEN MakeExact([kind |-> "array", shape |-> g.delta.shape,
                    data |-> [k \in 1..Len(g.delta.data) |->
                                 FMul(g.delta.data[k], g.steps[g.i])]])
    ELSE g.delta

\* The value h of the current loop iteration:
\* delta * step_ratio**(i + offset), _make_exact(delta * step), or the one
\* value of _step_generator.
GenCandidate(g) ==
    IF g.cls = "StepsGenerator"
    THEN LET m == FPow(g.step_ratio, g.i + g.offset)
         IN  [kind |-> "array", shape |-> g.delta.shape,
              data |-> [k \in 1..Len(g.delta.data) |-> FMul(g.delta.data[k], m)]]
    ELSE IF g.cls = "StepsGenerator2"
    THEN MakeExact([kind |-> "array", shape |-> g.delta.shape,
                    data |-> [k \in 1..Len(g.delta.data) |->
                                 FMul(g.delta.data[k], g.steps[g.i])]])
    ELSE g.delta

\* Mutant of GenYields: the zero test is dropped.
GenYieldsAlways(g) == TRUE

\* Whether the current iteration yields: the test (np.abs(h) > 0).all() of the
\* two generators; _step_generator yields its value untested.
GenYields(g) ==
    IF g.cls = "_step_generator" THEN TRUE ELSE AllNonZero(GenCandidate(g))

\* The loop control after one iteration: range(int(num_steps), -1, -1),
\* "for step in steps", or the end of _step_generator.
GenAdvance(g) ==
    IF g.cls = "StepsGenerator"
    THEN IF g.i = 0 THEN [g EXCEPT !.pc = "done"]
         ELSE [g EXCEPT !.i = g.i - 1]
    ELSE IF g.cls = "StepsGenerator2"
    THEN IF g.i = g.num_steps THEN [g EXCEPT !.pc = "done"]
         ELSE [g EXCEPT !.i = g.i + 1]
    ELSE [g EXCEPT !.pc = "done"]

(***************************************************************************)
(* The stencils of Derivative.  A stencil evaluates f at its points in the *)
(* order Python evaluates the expression, left to right.                   *)
(***************************************************************************)
\* The points at which the stencil of the method evaluates f for the step h,
\* in order of evaluation.
DerivativePoints(method, x, h) ==
    LET plus  == [k \in 1..Len(x.data) |-> Cx(FAdd(x.data[k], h.data[k]))]
        minus == [k \in 1..Len(x.data) |-> Cx(FSub(x.data[k], h.data[k]))]
        at    == [k \in 1..Len(x.data) |-> Cx(x.data[k])]
        imag  == [k \in 1..Len(x.data) |-> <<x.data[k], h.data[k]>>]
    IN  IF method = "central" THEN <<plus, minus>>
        ELSE IF method = "forward" THEN <<plus, at>>
        ELSE IF method = "backward" THEN <<at, minus>>
        ELSE <<imag>>

\* The raw estimate of the stencil from the values fv of f at its points:
\* (f(x+h) - f(x-h)) / (h*2), (f(x+h) - f(x)) / h, (f(x) - f(x-h)) / h,
\* f(x + 1j*h).imag / h.
DerivativeValue(method, fv, x, h) ==
    [kind |-> "array", shape |-> x.shape,
     data |-> [k \in 1..Len(x.data) |->
        IF method = "complex" THEN FDiv(fv[1][k][2], h.data[k])
        ELSE IF method = "central"
        THEN FDiv(FSub(fv[1][k][1], fv[2][k][1]), FMul(h.data[k], 2 * ONE))
        ELSE FDiv(FSub(fv[1][k][1], fv[2][k][1]), h.data[k])]]

\* _Derivative.default_scale(method, n).
DefaultScale(method, n) ==
    (IF method = "complex" THEN 1 ELSE IF method = "central" THEN 3 ELSE 2)
    + (n - 1)

(***************************************************************************)
(* The extrapolation engine.  dea3 lives in numdifftools/extrapolation.py, *)
(* which is not among the sources: it is modelled from the specification   *)
(* (three-term Shanks/Aitken acceleration over sliding triples, with an    *)
(* error estimate from the discrepancy of successive values; the symmetric *)
(* variant returns one row less).                                          *)
(***************************************************************************)
\* np.finfo(float).tiny: the smallest normal number.
TINY == 2 ^ (MantBits - 1)

\* The literal 1.0e-3.
Milli == RoundRat(ONE, 1000)

\* The last stage of dea3 on one element: the accelerated value (the newest
\* estimate where the triple has converged) and its error estimate.
Dea3Result(e1, e2, err1, err2, tol2, ss, conv) ==
    LET res == IF conv THEN e2 ELSE FAdd(e1, FDiv(ONE, ss))
    IN  <<res, FAdd(FAdd(err1, err2),
                    IF conv THEN FMul(tol2, 10 * ONE) ELSE FAbs(FSub(res, e2)))>>

\* The convergence test of dea3 on one element.
Dea3Conv(e1, e2, err1, err2, tol1, tol2, ss) ==
    Dea3Result(e1, e2, err1, err2, tol2, ss,
               (FLeq(err1, tol1) /\ FLeq(err2, tol2))
               \/ FLeq(FAbs(FMul(ss, e1)), Milli))

\* The tolerances and the reciprocal difference ss of dea3 on one element,
\* from the differences d1, d2 and their magnitudes.
Dea3Diff(e0, e1, e2, d1, d2, err1, err2) ==
    Dea3Conv(e1, e2, err1, err2,
             FMul(FMax(FAbs(e1), FAbs(e0)), EPS),
             FMul(FMax(FAbs(e2), FAbs(e1)), EPS),
             FAdd(FSub(FDiv(ONE, IF FLt(err2, TINY) THEN TINY ELSE d2),
                       FDiv(ONE, IF FLt(err1, TINY) THEN TINY ELSE d1)), TINY))

\* dea3 on one element, from the differences of the triple.
Dea3Abs(e0, e1, e2, d1, d2) == Dea3Diff(e0, e1, e2, d1, d2, FAbs(d1), FAbs(d2))

\* dea3 on one element of a triple: <<result, abserr>>.
Dea3Elt(e0, e1, e2) == Dea3Abs(e0, e1, e2, FSub(e1, e0), FSub(e2, e1))

\* Rows a..b of a matrix (a sequence of rows).
Rows(m, a, b) == [r \in 1..(b - a + 1) |-> m[r + a - 1]] \o <<>>

\* A matrix (a sequence of rows) with all its elements computed.
Matrix(m) == [r \in 1..Len(m) |-> m[r] \o <<>>] \o <<>>

\* The results and error estimates of dea3 from its elementwise pairs el; the
\* symmetric variant returns result[:-1], abserr[1:] when there are rows to
\* spare.
Dea3Split(el, n, symmetric) ==
    IF symmetric /\ n > 1
    THEN [der    |-> Matrix([r \in 1..(n - 1) |->
                         [c \in 1..Len(el[r]) |-> el[r][c][1]]]),
          errors |-> Matrix([r \in 1..(n - 1) |->
                         [c \in 1..Len(el[r + 1]) |-> el[r + 1][c][2]]])]
    ELSE [der    |-> Matrix([r \in 1..n |-> [c \in 1..Len(el[r]) |-> el[r][c][1]]]),
          errors |-> Matrix([r \in 1..n |-> [c \in 1..Len(el[r]) |-> el[r][c][2]]])]

\* dea3(v0, v1, v2, symmetric) on matrices of equally many rows: the refined
\* estimates der and their error estimates errors.
Dea3(v0, v1, v2, symmetric) ==
    Dea3Split(Matrix([r \in 1..Len(v0) |-> [c \in 1..Len(v0[r]) |->
                  Dea3Elt(v0[r][c], v1[r][c], v2[r][c])]]),
              Len(v0), symmetric)

RECURSIVE SortedSeq(_)
\* The elements of a finite set of integers as an ascending sequence.
SortedSeq(S) ==
    IF S = {} THEN <<>>
    ELSE LET m == CHOOSE a \in S : \A b \in S : a <= b
         IN  <<m>> \o SortedSeq(S \ {m})

\* The rows of column c of errors that hold the number v, ascending:
\* np.flatnonzero(errors[:, c] == v).
RowsEqual(errors, c, v) ==
    SortedSeq({r \in 1..Len(errors) : errors[r][c] = v /\ ~IsNaN(v)})

\* np.nanmin(errors, axis=0)[c]: the least number of column c (NaN if none).
ColMin(errors, c) ==
    LET nums == {errors[r][c] : r \in 1..Len(errors)} \ {NaN}
    IN  IF nums = {} THEN NaN ELSE CHOOSE a \in nums : \A b \in nums : a <= b

\* Mutant of ArgMinRow: the first row that holds the column's minimum
\* (np.nanargmin alone).
ArgMinRowFirst(errors, c) == RowsEqual(errors, c, ColMin(errors, c))[1]

\* The row _get_arg_min picks for column c (1-based): the middle one,
\* idx[idx.size // 2], of the rows that hold the column's minimum.
ArgMinRow(errors, c) ==
    LET idx == RowsEqual(errors, c, ColMin(errors, c))
    IN  idx[(Len(idx) \div 2) + 1]

\* _get_arg_min(errors): per column the flat (row-major, 0-based) index
\* np.ravel_multi_index((arg_mins, np.arange(shape[1])), shape).
GetArgMin(errors) ==
    LET ncols == Len(errors[1])
    IN  [c \in 1..ncols |-> (ArgMinRow(errors, c) - 1) * ncols + (c - 1)]

\* m.flat[k] for a 0-based flat index k of a matrix m.
Flat(m, k) == m[(k \div Len(m[1])) + 1][(k % Len(m[1])) + 1]

NoArr == NoneVal

\* No value from _extrapolate / no value from the call.
\* (passes, first_rows, cand_der and cand_err are history: the number of dea3
\* passes run, the number of rows the first pass returned, and the rows of
\* estimates and errors the selection chose from.)
NoResult ==
    [kind |-> "none", der |-> NoArr, error_estimate |-> NoArr,
     index |-> <<>>, index_is_scalar |-> FALSE,
     passes |-> 0, first_rows |-> 0, cand_der |-> <<>>, cand_err |-> <<>>]

\* An exception, as the outcome of _extrapolate or of the call.
Raised(exc) ==
    [kind |-> exc, der |-> NoArr, error_estimate |-> NoArr,
     index |-> <<>>, index_is_scalar |-> FALSE,
     passes |-> 0, first_rows |-> 0, cand_der |-> <<>>, cand_err |-> <<>>]

\* The exception that "sequence[0]" raises on an empty sequence.
IndexError == Raised("IndexError")

\* Mutant of ExtrapolateFallback: the last estimate is returned unaveraged and
\* its error set to zero.
ExtrapolateFallbackLast(sequence) ==
    LET last == sequence[Len(sequence)]
    IN  [kind |-> "value", der |-> last,
         error_estimate |-> [kind |-> "array", shape |-> last.shape,
                             data |-> [k \in 1..Len(last.data) |-> 0]],
         index |-> <<0>>, index_is_scalar |-> TRUE,
         passes |-> 0, first_rows |-> 0, cand_der |-> <<>>, cand_err |-> <<>>]

\* The branch "dont_extrapolate" of _extrapolate (1 <= len(sequence) < 3):
\* 0.5 * (sequence[0] + sequence[-1]) and info(err, 0) with err all NaN, of
\* the shape of sequence[0].
ExtrapolateFallback(sequence) ==
    LET first == sequence[1]
        last  == sequence[Len(sequence)]
    IN  [kind |-> "value",
         der |-> [kind |-> "array", shape |-> first.shape,
                  data |-> [k \in 1..Len(first.data) |->
                      FMul(ONE \div 2, FAdd(first.data[k], last.data[k]))]],
         error_estimate |-> [kind |-> "array", shape |-> first.shape,
                             data |-> [k \in 1..Len(first.data) |-> NaN]],
         index |-> <<0>>, index_is_scalar |-> TRUE,
         passes |-> 0, first_rows |-> 0, cand_der |-> <<>>, cand_err |-> <<>>]

\* The end of the extrapolating branch: the entries of least error estimate
\* per column, der.flat[ix] and info(errors.flat[ix], ix).
ExtrapolatePick(sequence, der, errors, ix, passes, first_rows) ==
    [kind |-> "value",
     der |-> [kind |-> "array", shape |-> sequence[1].shape,
              data |-> [c \in 1..Len(ix) |-> Flat(der, ix[c])]],
     error_estimate |-> [kind |-> "array", shape |-> sequence[1].shape,
              data |-> [c \in 1..Len(ix) |-> Flat(errors, ix[c])]],
     index |-> ix, index_is_scalar |-> FALSE,
     passes |-> passes, first_rows |-> first_rows,
     cand_der |-> der, cand_err |-> errors]

\* _get_arg_min on the final error estimates; np.nanargmin raises on a column
\* without a number.
ExtrapolateArgMin(sequence, der, errors, passes, first_rows) ==
    IF \E c \in 1..Len(errors[1]) : IsNaN(ColMin(errors, c))
    THEN Raised("ValueError: All-NaN slice encountered")
    ELSE ExtrapolatePick(sequence, der, errors, GetArgMin(errors),
                         passes, first_rows)

\* Mutant of ExtrapolateSecond: the second pass is never taken.
ExtrapolateSecondNever(sequence, der, errors) ==
    ExtrapolateArgMin(sequence, der, errors, 1, Len(der))

\* The second pass of dea3, taken "if len(der) > 2".
ExtrapolateSecond(sequence, der, errors) ==
    IF Len(der) > 2
    THEN ExtrapolateArgMin(sequence,
             Dea3(Rows(der, 1, Len(der) - 2), Rows(der, 2, Len(der) - 1),
                  Rows(der, 3, Len(der)), FALSE).der,
             Dea3(Rows(der, 1, Len(der) - 2), Rows(der, 2, Len(der) - 1),
                  Rows(der, 3, Len(der)), FALSE).errors,
             2, Len(der))
    ELSE ExtrapolateArgMin(sequence, der, errors, 1, Len(der))

\* The first pass of dea3 over the stacked estimates res.
ExtrapolateFirst(sequence, first) ==
    ExtrapolateSecond(sequence, first.der, first.errors)

\* The extrapolating branch of _extrapolate (len(sequence) >= 3).
ExtrapolateStack(sequence, res, n) ==
    ExtrapolateFirst(sequence,
        Dea3(Rows(res, 1, n - 2), Rows(res, 2, n - 1), Rows(res, 3, n), TRUE))

ExtrapolateDea3(sequence) ==
    ExtrapolateStack(sequence,
        Matrix([r \in 1..Len(sequence) |-> sequence[r].data]), Len(sequence))

\* _Derivative._extrapolate(sequence): (derivative, info), or the IndexError
\* of sequence[0] on an empty sequence.
Extrapolate(sequence) ==
    IF Len(sequence) = 0 THEN IndexError
    ELSE IF Len(sequence) < 3 THEN ExtrapolateFallback(sequence)
    ELSE ExtrapolateDea3(sequence)

(***************************************************************************)
(* The inputs of the model.                                                *)
(***************************************************************************)
\* Evaluation points: 0-d and 1-d arrays.
XPoints == {Arr0(0), Arr0(ONE), Arr1(<<0 - (2 * ONE)>>), Arr1(<<ONE, 0>>)}

\* base_step / steps values: None, scalars (zero, the smallest subnormal,
\* values below and above EPS), and arrays of one and two elements.
StepValues ==
    {NoneVal, Scalar(0), Scalar(1), Scalar(3), Scalar(Tenth), Scalar(ONE \div 2),
     Arr1(<<EPS>>), Arr1(<<ONE \div 4, 0>>), Arr1(<<5, 24>>)}

\* step_ratio values (the documented range, ratio > 1).
Ratios == {ONE + EPS, (3 * ONE) \div 2, 4 * ONE}

\* offset values.
Offsets == {0 - 2, 0 - 1, 0}

\* step_min of StepsGenerator2: None or a positive scalar.
StepMins == {NoneVal, Scalar(3), Scalar(Tenth), Scalar(ONE \div 2)}

\* step_max of StepsGenerator2: 0 stands for None.
StepMaxs == {0, 2, ONE \div 8, 2 * ONE}

Scales == 1..3

\* num_steps of StepsGenerator2 (np.logspace takes roots of the ratio
\* step_max / step_min up to num_steps - 1).
LogSteps == 0..3

Methods == {"central", "forward", "backward", "complex"}

\* Largest index of an evaluation of f at which the model lets f raise.
MaxFailAt == 3

\* The frame of a public call that has bound its functions and created the
\* generator steps(xi, self.scale), before the first step is asked for.
NewCall(method, fn, full, failAt) ==
    [method |-> method, fn |-> fn, full_output |-> full, failAt |-> failAt,
     pc |-> "steps", h |-> NoArr, fvals |-> <<>>, results |-> <<>>,
     nevals |-> 0, evals |-> <<>>, extr |-> NoResult, ret |-> NoResult]

\* No call in progress (the step sources run on their own).
NoCall == NewCall("central", "square", FALSE, 0)

StepSources ==
    {NewGen("StepsGenerator", b, n, r, o, e, 0) :
        b \in StepValues, n \in 0..MaxNumSteps, r \in Ratios, o \in Offsets,
        e \in BOOLEAN}
    \cup {NewGen("StepsGenerator2", b, n, ONE, 0, TRUE, m) :
        b \in StepMins, n \in LogSteps, m \in StepMaxs}
    \cup {NewGen("_step_generator", b, 0, ONE, 0, FALSE, 0) : b \in StepValues}

(***************************************************************************)
(* The step sources on their own: one invocation steps(xi, scale), run to  *)
(* exhaustion.                                                             *)
(***************************************************************************)
InitSteps ==
    /\ gen \in StepSources
    /\ xi \in XPoints
    /\ scale \in Scales
    /\ yielded = <<>>
    /\ cands = <<>>
    /\ call = NoCall

\* The first next(): the generator body runs to the head of its loop, or
\* raises the shape error.
StepsCall ==
    /\ gen.pc = "start"
    /\ gen' = GenCall(gen, xi, scale)
    /\ UNCHANGED <<xi, scale, yielded, cands, call>>

\* One iteration of the generator's loop: h is computed and yielded if no
\* element of it is zero.
StepsIter ==
    /\ gen.pc = "loop"
    /\ cands' = Append(cands, [h |-> GenCandidate(gen), out |-> GenYields(gen)])
    /\ yielded' = IF GenYields(gen) THEN Append(yielded, GenCandidate(gen))
                  ELSE yielded
    /\ gen' = GenAdvance(gen)
    /\ UNCHANGED <<xi, scale, call>>

NextSteps == StepsCall \/ StepsIter

SpecSteps == InitSteps /\ [][NextSteps]_vars


(***************************************************************************)
(* The public call _Derivative.__call__(x) of a Derivative object:         *)
(*   results = [derivative(f, xi, h) for h in steps(xi, self.scale)]       *)
(*   derivative, info = self._extrapolate(results)                         *)
(* The list comprehension asks the generator for a step, evaluates the     *)
(* stencil at it (one action for each evaluation of f), and so on until    *)
(* the generator is exhausted.                                             *)
(***************************************************************************)
\* The step sources of the calls of the model.
CallSources ==
    {NewGen("StepsGenerator", b, n, 4 * ONE, 0 - 1, e, 0) :
        b \in StepValues, n \in 0..MaxNumSteps, e \in BOOLEAN}
    \cup {NewGen("StepsGenerator2", b, n, ONE, 0, TRUE, 0) :
        b \in {NoneVal, Scalar(Tenth)}, n \in LogSteps}
    \cup {NewGen("_step_generator", b, 0, ONE, 0, FALSE, 0) :
        b \in StepValues \ {Scalar(0), Arr1(<<ONE \div 4, 0>>)}}

InitCall ==
    /\ gen \in CallSources
    /\ xi \in XPoints
    /\ call \in {NewCall(m, fn, full, k) :
                    m \in Methods, fn \in Functions, full \in BOOLEAN,
                    k \in 0..MaxFailAt}
    /\ scale = DefaultScale(call.method, 1)
    /\ yielded = <<>>
    /\ cands = <<>>

\* The comprehension's first next(): the generator body runs to the head of
\* its loop; the shape error of _default_base_step leaves the call.
CallGenStart ==
    /\ call.pc = "steps"
    /\ gen.pc = "start"
    /\ gen' = GenCall(gen, xi, scale)
    /\ call' = IF gen'.pc = "raised"
               THEN [call EXCEPT !.pc = "raised", !.ret = Raised("ValueError")]
               ELSE call
    /\ UNCHANGED <<xi, scale, yielded, cands>>

\* One iteration of the generator's loop; a yielded h starts its stencil.
CallGenIter ==
    /\ call.pc = "steps"
    /\ gen.pc = "loop"
    /\ cands' = Append(cands, [h |-> GenCandidate(gen), out |-> GenYields(gen)])
    /\ yielded' = IF GenYields(gen) THEN Append(yielded, GenCandidate(gen))
                  ELSE yielded
    /\ call' = IF GenYields(gen)
               THEN [call EXCEPT !.pc = "stencil", !.h = GenCandidate(gen),
                                 !.fvals = <<>>]
               ELSE call
    /\ gen' = GenAdvance(gen)
    /\ UNCHANGED <<xi, scale>>

\* Mutant of StencilEval: an exception of f is swallowed and the evaluation
\* repeated.
StencilEvalRetry(c, x) ==
    LET pts == DerivativePoints(c.method, x, c.h)
        k   == Len(c.fvals) + 1
        fv  == Append(c.fvals, FnArr(c.fn, pts[k]))
        n   == IF c.nevals + 1 = c.failAt THEN c.nevals + 2 ELSE c.nevals + 1
    IN  IF k = Len(pts)
        THEN [c EXCEPT !.nevals = n, !.fvals = <<>>, !.pc = "steps",
                       !.evals = Append(c.evals, pts[k]),
                       !.results = Append(c.results,
                           DerivativeValue(c.method, fv, x, c.h))]
        ELSE [c EXCEPT !.nevals = n, !.fvals = fv,
                       !.evals = Append(c.evals, pts[k])]

\* The next evaluation of f inside derivative(f, xi, h): f raises (the
\* exception leaves the call as it is), or its value is kept; after the last
\* point of the stencil the raw estimate is appended to results.
StencilEval(c, x) ==
    LET pts == DerivativePoints(c.method, x, c.h)
        k   == Len(c.fvals) + 1
        fv  == Append(c.fvals, FnArr(c.fn, pts[k]))
    IN  IF c.nevals + 1 = c.failAt
        THEN [c EXCEPT !.nevals = c.nevals + 1, !.pc = "raised",
                       !.evals = Append(c.evals, pts[k]),
                       !.ret = Raised("FError")]
        ELSE IF k = Len(pts)
        THEN [c EXCEPT !.nevals = c.nevals + 1, !.fvals = <<>>, !.pc = "steps",
                       !.evals = Append(c.evals, pts[k]),
                       !.results = Append(c.results,
                           DerivativeValue(c.method, fv, x, c.h))]
        ELSE [c EXCEPT !.nevals = c.nevals + 1, !.fvals = fv,
                       !.evals = Append(c.evals, pts[k])]

CallEval ==
    /\ call.pc = "stencil"
    /\ call' = StencilEval(call, xi)
    /\ UNCHANGED <<gen, xi, scale, yielded, cands>>

\* What __call__ returns from the outcome of _extrapolate: the derivative
\* alone, or (derivative, info) with full_output; an exception passes through.
CallReturn(c, e) ==
    IF e.kind # "value" THEN [c EXCEPT !.pc = "raised", !.extr = e, !.ret = e]
    ELSE IF c.full_output THEN [c EXCEPT !.pc = "returned", !.extr = e, !.ret = e]
    ELSE [c EXCEPT !.pc = "returned", !.extr = e,
                   !.ret = [e EXCEPT !.error_estimate = NoArr, !.index = <<>>,
                                     !.index_is_scalar = FALSE]]

\* The generator is exhausted: the list is complete, _extrapolate runs and
\* the call returns.
CallFinish ==
    /\ call.pc = "steps"
    /\ gen.pc = "done"
    /\ call' = CallReturn(call, Extrapolate(call.results))
    /\ UNCHANGED <<gen, xi, scale, yielded, cands>>

NextCall == CallGenStart \/ CallGenIter \/ CallEval \/ CallFinish

SpecCall == InitCall /\ [][NextCall]_vars

(***************************************************************************)
(* _extrapolate on its own, fed a sequence of raw estimates directly.      *)
(***************************************************************************)
\* Longest sequence of raw estimates fed to _extrapolate directly.
MaxSeqLen == 6

\* The values of the elements of the raw estimates.
RawVals == {0 - ONE, 3, 2 * ONE}

\* Raw estimates by shape: 0-d arrays and vectors of one and two elements.
RawEstimatesByShape ==
    {{Arr0(v) : v \in RawVals}, {Arr1(<<v>>) : v \in RawVals},
     {Arr1(<<v, w>>) : v \in {3, 2 * ONE}, w \in {3, 2 * ONE}}}

\* Sequences of raw estimates of one shape, of up to MaxSeqLen elements.
RawSequences ==
    UNION {[1..n -> S] : n \in 0..MaxSeqLen, S \in RawEstimatesByShape}

InitExtrapolate ==
    /\ gen = NewGen("_step_generator", NoneVal, 0, ONE, 0, FALSE, 0)
    /\ xi = Arr0(0)
    /\ scale = 1
    /\ yielded = <<>>
    /\ cands = <<>>
    /\ \E sq \in RawSequences :
          call = [NewCall("central", "square", TRUE, 0) EXCEPT
                     !.pc = "extrapolate", !.results = sq]

\* self._extrapolate(sequence).
ExtrapolateStep ==
    /\ call.pc = "extrapolate"
    /\ call' = CallReturn(call, Extrapolate(call.results))
    /\ UNCHANGED <<gen, xi, scale, yielded, cands>>

NextExtrapolate == ExtrapolateStep

SpecExtrapolate == InitExtrapolate /\ [][NextExtrapolate]_vars

(***************************************************************************)
(* Properties of the step sources (checked under SpecSteps).               *)
(***************************************************************************)
\* |a| < |b| in every coordinate.
MagLess(a, b) ==
    \A k \in 1..Len(a.data) : FAbs(a.data[k]) < FAbs(b.data[k])

\* |a| <= |b| in every coordinate.
MagLeq(a, b) ==
    \A k \in 1..Len(a.data) : FAbs(a.data[k]) <= FAbs(b.data[k])

\* C3 as stated: a StepsGenerator (step_ratio > 1) yields at most
\* num_steps + 1 steps, each strictly smaller in magnitude, in every
\* coordinate, than the step yielded before it.
C3_StrictlyDecreasing ==
    gen.cls = "StepsGenerator" =>
        /\ Len(yielded) <= gen.num_steps + 1
        /\ \A j \in 2..Len(yielded) : MagLess(yielded[j], yielded[j - 1])

\* C3 amended: a StepsGenerator (step_ratio > 1) yields at most num_steps + 1
\* steps, and no yielded step is larger in magnitude, in any coordinate, than
\* the step yielded before it (largest step first); two consecutive steps are
\* equal where the rounded products coincide.
C3_NonIncreasing ==
    gen.cls = "StepsGenerator" =>
        /\ Len(yielded) <= gen.num_steps + 1
        /\ \A j \in 2..Len(yielded) : MagLeq(yielded[j], yielded[j - 1])

\* Witness of C3: a finished StepsGenerator that yielded all num_steps + 1 >= 3
\* candidates, each strictly smaller than the one before.
C3_Witness ==
    /\ gen.cls = "StepsGenerator"
    /\ gen.pc = "done"
    /\ gen.num_steps >= 2
    /\ Len(yielded) = gen.num_steps + 1
    /\ \A j \in 2..Len(yielded) : MagLess(yielded[j], yielded[j - 1])

\* C4 as stated (the docstring of StepsGenerator): a finished StepsGenerator
\* has generated num_steps steps, the values
\* base_step * step_ratio ** (k + offset) for k in 0..num_steps-1.
C4_NumStepsGenerated ==
    (gen.cls = "StepsGenerator" /\ gen.pc = "done") =>
        /\ Len(yielded) = gen.num_steps
        /\ \A j \in 1..Len(yielded) :
              \E k \in 0..(gen.num_steps - 1) :
                 yielded[j].data =
                    [c \in 1..Len(gen.delta.data) |->
                        FMul(gen.delta.data[c], FPow(gen.step_ratio, k + gen.offset))]

\* Whether the candidates of the source cannot grow along the sequence:
\* StepsGenerator with step_ratio >= 1, StepsGenerator2 with
\* step_max >= step_min.
NonGrowing ==
    \/ gen.cls = "StepsGenerator" /\ gen.step_ratio >= ONE
    \/ gen.cls = "StepsGenerator2" /\ StepMaxOf(gen, scale) >= StepMinOf(gen, scale)

\* No yielded step has a zero element.
YieldedNonZero == \A j \in 1..Len(yielded) : AllNonZero(yielded[j])

\* No candidate was yielded after a candidate with a zero element.
NoYieldAfterZero ==
    \A j \in 1..Len(cands) : \A l \in (j + 1)..Len(cands) :
        ~AllNonZero(cands[j].h) => ~cands[l].out

\* C5 as stated: a generator yields no step with a zero element, and once a
\* candidate has a zero element it yields nothing further in that invocation.
C5_StopsAtZero ==
    gen.cls \in {"StepsGenerator", "StepsGenerator2"} =>
        YieldedNonZero /\ NoYieldAfterZero

\* C5 amended: a generator yields no step with a zero element; a candidate
\* with a zero element is skipped and every candidate without one is yielded,
\* also after a skipped one; when the candidates cannot grow (step_ratio >= 1,
\* step_max >= step_min) nothing is yielded after a skipped candidate.
C5_SkipsZero ==
    gen.cls \in {"StepsGenerator", "StepsGenerator2"} =>
        /\ YieldedNonZero
        /\ \A j \in 1..Len(cands) : cands[j].out = AllNonZero(cands[j].h)
        /\ NonGrowing => NoYieldAfterZero

\* Witness of C5: a source whose candidates cannot grow has yielded a step and
\* then skipped a candidate with a zero element.
C5_Witness ==
    /\ gen.cls \in {"StepsGenerator", "StepsGenerator2"}
    /\ NonGrowing
    /\ \E j \in 1..Len(cands) : \E l \in (j + 1)..Len(cands) :
          cands[j].out /\ ~cands[l].out

\* h is a fixed point of the normalizer: (h + 1) - 1 = h in every element.
IsExact(h) ==
    \A k \in 1..Len(h.data) : FSub(FAdd(h.data[k], ONE), ONE) = h.data[k]

\* C6 as stated: every step a step source hands on (StepsGenerator with any
\* use_exact_steps, StepsGenerator2, the wrapping fallback) has been through
\* the normalizer (h + 1) - 1, hence is left unchanged by it.
C6_AllStepsExact == \A j \in 1..Len(yielded) : IsExact(yielded[j])

\* C6 amended: StepsGenerator2 normalizes every step it yields;
\* StepsGenerator normalizes only its base step delta, and only with
\* use_exact_steps set, not the products it yields (the fallback normalizes
\* nothing).
C6_ExactWhereNormalized ==
    /\ gen.cls = "StepsGenerator2" =>
          \A j \in 1..Len(yielded) : IsExact(yielded[j])
    /\ (gen.cls = "StepsGenerator" /\ gen.use_exact_steps
        /\ gen.pc \in {"loop", "done"}) => IsExact(gen.delta)

\* Witness of C6: StepsGenerator2 has yielded a step that the normalizer
\* changed (the product delta * step was not exact).
C6_Witness ==
    /\ gen.cls = "StepsGenerator2"
    /\ \E j \in 1..Len(cands) :
          /\ cands[j].out
          /\ cands[j].h.data[1] # FMul(gen.delta.data[1], gen.steps[j])

(***************************************************************************)
(* Properties of _extrapolate (checked under SpecExtrapolate).             *)
(***************************************************************************)
\* C1: given exactly 1 or exactly 2 raw estimates, _extrapolate does not
\* extrapolate: it returns 0.5 * (first + last) of the sequence, and an
\* error_estimate of the shape of the estimate with every element NaN.
C1_FallbackAverage ==
    (call.pc # "extrapolate" /\ Len(call.results) \in {1, 2}) =>
        LET first == call.results[1]
            last  == call.results[Len(call.results)]
            der   == call.extr.der
            err   == call.extr.error_estimate
        IN  /\ call.pc = "returned"
            /\ call.extr.kind = "value"
            /\ der.shape = first.shape
            /\ Len(der.data) = Len(first.data)
            /\ \A k \in 1..Len(first.data) :
                  der.data[k] = FMul(ONE \div 2, FAdd(first.data[k], last.data[k]))
            /\ err.shape = der.shape
            /\ Len(err.data) = Len(der.data)
            /\ \A k \in 1..Len(err.data) : IsNaN(err.data[k])

\* Witness of C1: _extrapolate has returned from two different raw estimates
\* of two elements each.
C1_Witness ==
    /\ call.pc = "returned"
    /\ Len(call.results) = 2
    /\ call.results[1] # call.results[2]
    /\ call.results[1].shape = <<2>>
    /\ call.extr.kind = "value"

(***************************************************************************)
(* Properties of the public call (checked under SpecCall).                 *)
(***************************************************************************)
\* Whether the user-supplied step of the call is an array of another shape
\* than the evaluation point.
StepShapeMismatch ==
    /\ gen.cls \in {"StepsGenerator", "_step_generator"}
    /\ gen.base_step.kind = "array"
    /\ gen.base_step.shape # xi.shape

\* C7: if the user-supplied step (steps of a public class, base_step of
\* StepsGenerator) is a non-scalar array whose shape differs from that of the
\* evaluation point, the call fails with the ValueError of the shape test, and
\* f has been evaluated zero times when it is raised.
C7_ShapeMismatchFailsFast ==
    /\ (StepShapeMismatch /\ gen.pc # "start") =>
          /\ call.pc = "raised"
          /\ call.ret = Raised("ValueError")
          /\ call.nevals = 0
          /\ call.results = <<>>
    /\ StepShapeMismatch => call.nevals = 0

\* Witness of C7: a call with a two-element step array at a 0-d point has
\* raised the ValueError.
C7_Witness ==
    /\ StepShapeMismatch
    /\ gen.base_step.shape = <<2>>
    /\ xi.shape = <<>>
    /\ call.pc = "raised"
    /\ call.ret.kind = "ValueError"

\* C9 as stated: whenever the step source has delivered fewer than 3 raw
\* estimates to a public call (none included), the call returns the average
\* of the first and last raw estimate with a NaN error estimate, and raises
\* nothing.
C9_FewEstimatesNoError ==
    (call.extr.kind # "none" /\ Len(call.results) < 3) =>
        /\ call.pc = "returned"
        /\ call.extr.kind = "value"
        /\ \A k \in 1..Len(call.extr.error_estimate.data) :
              IsNaN(call.extr.error_estimate.data[k])

\* C10: if f raises during the k-th evaluation of a public call, that
\* exception leaves the call, f is not evaluated again after the failure, and
\* the call returns no result (no derivative, no info).
C10_FailurePropagates ==
    /\ call.failAt > 0 => call.nevals <= call.failAt
    /\ (call.failAt > 0 /\ call.nevals = call.failAt) =>
          /\ call.pc = "raised"
          /\ call.ret = Raised("FError")
          /\ call.extr = NoResult

\* Witness of C10: f raised at its third evaluation or later, after a raw
\* estimate had been collected from an earlier step.
C10_Witness ==
    /\ call.pc = "raised"
    /\ call.ret.kind = "FError"
    /\ call.nevals >= 3
    /\ Len(call.results) >= 1

(***************************************************************************)
(* NDerivative: construction, which computes the weights of the stencil,   *)
(* and one evaluation of the stencil _central.                             *)
(***************************************************************************)
\* Largest derivative order n of the model.
MaxDerivOrder == 3

\* Largest number of points "order" of the model.
MaxOrder == 11

\* num / den of integers (den # 0), rounded into the format.
RatToFloat(num, den) ==
    IF den < 0
    THEN RoundRat(((0 - num) \div Gcd(AbsInt(num), AbsInt(den))) * ONE,
                  (0 - den) \div Gcd(AbsInt(num), AbsInt(den)))
    ELSE RoundRat((num \div Gcd(AbsInt(num), AbsInt(den))) * ONE,
                  den \div Gcd(AbsInt(num), AbsInt(den)))

\* The coefficients (lowest power first) of p(t) * (t - r).
PolyMulLinear(p, r) ==
    <<0 - (r * p[1])>>
    \o [k \in 1..Len(p) |-> p[k] - (IF k < Len(p) THEN r * p[k + 1] ELSE 0)]

RECURSIVE LagrangeNumer(_, _, _)
\* The coefficients of the product of (t - m) over the nodes m in lo..hi
\* other than xj.
LagrangeNumer(xj, lo, hi) ==
    IF lo > hi THEN <<1>>
    ELSE IF hi = xj THEN LagrangeNumer(xj, lo, hi - 1)
    ELSE PolyMulLinear(LagrangeNumer(xj, lo, hi - 1), hi)

RECURSIVE LagrangeDenom(_, _, _)
\* The product of (xj - m) over the nodes m in lo..hi other than xj.
LagrangeDenom(xj, lo, hi) ==
    IF lo > hi THEN 1
    ELSE IF hi = xj THEN LagrangeDenom(xj, lo, hi - 1)
    ELSE (xj - hi) * LagrangeDenom(xj, lo, hi - 1)

RECURSIVE Factorial(_)
\* np.product(np.arange(1, ndiv + 1)).
Factorial(k) == IF k <= 0 THEN 1 ELSE k * Factorial(k - 1)

\* The outcome of computing weights: a vector, or an exception.
WeightsValue(w) == [kind |-> "value", w |-> w]

WeightsError == [kind |-> "ValueError", w |-> <<>>]

\* central_diff_weights(Np, ndiv): ndiv! times row ndiv of the inverse of the
\* Vandermonde matrix X of the nodes -ho..ho.  Entry (ndiv, k) of the inverse
\* is the coefficient of t**ndiv of the Lagrange basis polynomial of node k.
CentralDiffWeights(Np, ndiv) ==
    IF Np < ndiv + 1 THEN WeightsError
    ELSE IF Np % 2 = 0 THEN WeightsError
    ELSE WeightsValue(
        [k \in 1..Np |->
            RatToFloat(Factorial(ndiv)
                       * LagrangeNumer(k - 1 - (Np \div 2), 0 - (Np \div 2),
                                       Np \div 2)[ndiv + 1],
                       LagrangeDenom(k - 1 - (Np \div 2), 0 - (Np \div 2),
                                     Np \div 2))])

\* Mutant of WeightTable: the three-point weights are used for every number
\* of points, the further points weighing nothing.
WeightTableThreePoint(n, order) ==
    [num |-> [k \in 1..order |->
                 IF k = (order \div 2) THEN (IF n = 1 THEN 0 - 1 ELSE 1)
                 ELSE IF k = (order \div 2) + 1 THEN (IF n = 1 THEN 0 ELSE 0 - 2)
                 ELSE IF k = (order \div 2) + 2 THEN 1
                 ELSE 0],
     den |-> IF n = 1 THEN 2 ELSE 1]

\* The precomputed tables of _weights: array(num) / den.
WeightTable(n, order) ==
    IF n = 1 THEN
        IF order = 3 THEN [num |-> <<0 - 1, 0, 1>>, den |-> 2]
        ELSE IF order = 5 THEN [num |-> <<1, 0 - 8, 0, 8, 0 - 1>>, den |-> 12]
        ELSE IF order = 7
        THEN [num |-> <<0 - 1, 9, 0 - 45, 0, 45, 0 - 9, 1>>, den |-> 60]
        ELSE [num |-> <<3, 0 - 32, 168, 0 - 672, 0, 672, 0 - 168, 32, 0 - 3>>,
              den |-> 840]
    ELSE
        IF order = 3 THEN [num |-> <<1, 0 - 2, 1>>, den |-> 1]
        ELSE IF order = 5 THEN [num |-> <<0 - 1, 16, 0 - 30, 16, 0 - 1>>, den |-> 12]
        ELSE IF order = 7
        THEN [num |-> <<2, 0 - 27, 270, 0 - 490, 270, 0 - 27, 2>>, den |-> 180]
        ELSE [num |-> <<0 - 9, 128, 0 - 1008, 8064, 0 - 14350, 8064, 0 - 1008,
                        128, 0 - 9>>, den |-> 5040]

\* Mutant of Weights: the tests of order are left out, an unusable order
\* yields an empty weight vector.
WeightsNoTest(n, order) ==
    IF n \in {1, 2} /\ order \in {3, 5, 7, 9}
    THEN WeightsValue([k \in 1..order |->
             RatToFloat(WeightTable(n, order).num[k], WeightTable(n, order).den)])
    ELSE IF order >= n + 1 /\ order % 2 = 1 THEN CentralDiffWeights(order, n)
    ELSE WeightsValue(<<>>)

\* NDerivative._weights(n, order).
Weights(n, order) ==
    IF order < n + 1 THEN WeightsError
    ELSE IF order % 2 = 0 THEN WeightsError
    ELSE IF n \in {1, 2} /\ order \in {3, 5, 7, 9}
    THEN WeightsValue([k \in 1..order |->
             RatToFloat(WeightTable(n, order).num[k], WeightTable(n, order).den)])
    ELSE CentralDiffWeights(order, n)

RECURSIVE WeightedSum(_, _, _, _, _, _)
\* The loop of NDerivative._central over the first k weights:
\* val += w * f(x0 + (k - ho) * dx), from val = 0.0.
WeightedSum(fn, w, ho, x0, dx, k) ==
    IF k = 0 THEN 0
    ELSE FAdd(WeightedSum(fn, w, ho, x0, dx, k - 1),
              FMul(w[k], FnElt(fn, Cx(FAdd(x0, FMul((k - 1 - ho) * ONE, dx))))[1]))

RECURSIVE StepProduct(_, _)
\* np.product((dx,) * n).
StepProduct(dx, n) == IF n = 0 THEN ONE ELSE FMul(StepProduct(dx, n - 1), dx)

\* NDerivative._central(f, x0, dx).
NDCentral(fn, w, order, n, x0, dx) ==
    FDiv(WeightedSum(fn, w, order \div 2, x0, dx, Len(w)), StepProduct(dx, n))

\* An NDerivative object under construction: __init__ has been entered.
NewND(fn, n, order, full) ==
    [cls |-> "NDerivative", fn |-> fn, n |-> n, order |-> order,
     method |-> "central", full_output |-> full, pc |-> "init",
     weights |-> <<>>, exc |-> "none", nevals |-> 0, val |-> NaN]

\* The spacings dx of the evaluations of the model.
NDSteps == {ONE \div 4, ONE \div 2}

InitND ==
    /\ gen = NewGen("_step_generator", NoneVal, 0, ONE, 0, FALSE, 0)
    /\ xi \in {Arr0(0), Arr0(ONE)}
    /\ scale = 1
    /\ yielded = <<>>
    /\ cands = <<>>
    /\ call \in {NewND(fn, n, order, full) :
                    fn \in Functions, n \in 1..MaxDerivOrder,
                    order \in (0 - 1)..MaxOrder, full \in BOOLEAN}

\* NDerivative.__init__: the attributes are set and the weights computed; the
\* ValueError of _weights leaves the constructor.
NDInit ==
    /\ call.cls = "NDerivative"
    /\ call.pc = "init"
    /\ call' = IF Weights(call.n, call.order).kind = "value"
               THEN [call EXCEPT !.pc = "constructed",
                                 !.weights = Weights(call.n, call.order).w]
               ELSE [call EXCEPT !.pc = "raised",
                                 !.exc = Weights(call.n, call.order).kind]
    /\ UNCHANGED <<gen, xi, scale, yielded, cands>>

\* One evaluation of the stencil of a constructed object: f is evaluated once
\* for each weight.
NDEval ==
    /\ call.cls = "NDerivative"
    /\ call.pc = "constructed"
    /\ \E dx \in NDSteps :
          call' = [call EXCEPT
                      !.pc = "evaluated",
                      !.nevals = Len(call.weights),
                      !.val = NDCentral(call.fn, call.weights, call.order,
                                        call.n, xi.data[1], dx)]
    /\ UNCHANGED <<gen, xi, scale, yielded, cands>>

NextND == NDInit \/ NDEval

SpecND == InitND /\ [][NextND]_vars

(***************************************************************************)
(* Properties of NDerivative (checked under SpecND).                       *)
(***************************************************************************)
\* C8: constructing NDerivative with an even order, or with order < n + 1,
\* fails with ValueError in the constructor, before any evaluation of f; with
\* an odd order >= n + 1 the construction succeeds and the weight vector has
\* exactly order entries.
C8_InvalidStencil ==
    call.pc # "init" =>
        IF call.order % 2 = 0 \/ call.order < call.n + 1
        THEN /\ call.pc = "raised"
             /\ call.exc = "ValueError"
             /\ call.weights = <<>>
             /\ call.nevals = 0
        ELSE /\ call.pc \in {"constructed", "evaluated"}
             /\ call.exc = "none"
             /\ Len(call.weights) = call.order
             /\ call.pc = "constructed" => call.nevals = 0

\* Witness of C8: an object with weights computed by central_diff_weights
\* (n = 3, seven points) has been constructed, not yet evaluated.
C8_Witness ==
    /\ call.pc = "constructed"
    /\ call.n = 3
    /\ call.order = 7
    /\ Len(call.weights) = 7

(***************************************************************************)
(* Hessian: the stencils _complex, _central, _central2, _forward and       *)
(* _backward at one step h.  Each stencil fills the matrix hess with the   *)
(* outer product of h and then walks the pairs (i, j), j >= i.             *)
(***************************************************************************)
\* Largest dimension of the points of the Hessian stencils.
MaxDim == 2

HessMethods == {"complex", "central", "central2", "forward", "backward"}

\* The target functions of the Hessian stencils: sum(z**2) and sum(z)**2.
HessFunctions == {"sumsq", "sqsum"}

RECURSIVE SumSquares(_, _)
SumSquares(pt, k) ==
    IF k = 0 THEN Cx(0) ELSE CAdd(SumSquares(pt, k - 1), CMul(pt[k], pt[k]))

RECURSIVE SumElts(_, _)
SumElts(pt, k) == IF k = 0 THEN Cx(0) ELSE CAdd(SumElts(pt, k - 1), pt[k])

\* f at a point (a sequence of complex elements): a complex scalar.
HessFn(fn, pt) ==
    IF fn = "sumsq" THEN SumSquares(pt, Len(pt))
    ELSE CMul(SumElts(pt, Len(pt)), SumElts(pt, Len(pt)))

\* np.outer(h, h).
Outer(h) == [r \in 1..Len(h) |-> [c \in 1..Len(h) |-> FMul(h[r], h[c])]]

\* 2. * np.outer(h, h).
Outer2(h) ==
    [r \in 1..Len(h) |-> [c \in 1..Len(h) |-> FMul(2 * ONE, FMul(h[r], h[c]))]]

\* The point x + si * ee[i, :] + sj * ee[j, :] (si, sj in {-1, 0, 1}).
RealPt(x, h, si, i, sj, j) ==
    [k \in 1..Len(x) |->
        Cx(FAdd(FAdd(x[k], IF k = i THEN si * h[i] ELSE 0),
                IF k = j THEN sj * h[j] ELSE 0))]

\* The point x + 1j * ee[i, :] + sj * ee[j, :].
ImagPt(x, h, i, sj, j) ==
    [k \in 1..Len(x) |->
        <<FAdd(FAdd(x[k], 0), IF k = j THEN sj * h[j] ELSE 0),
          IF k = i THEN h[i] ELSE 0>>]

\* The points at which a stencil evaluates f before its pair loop, in order:
\* x (f0) and, per axis, x + ee[i] (g[i]) and x - ee[i] (gg[i]).
HessPrePoints(method, x, h) ==
    IF method \in {"complex", "central"} THEN <<>>
    ELSE IF method = "central2"
    THEN <<RealPt(x, h, 0, 1, 0, 1)>>
         \o [k \in 1..(2 * Len(x)) |->
                IF k % 2 = 1 THEN RealPt(x, h, 1, (k + 1) \div 2, 0, 1)
                ELSE RealPt(x, h, 0 - 1, k \div 2, 0, 1)]
    ELSE <<RealPt(x, h, 0, 1, 0, 1)>>
         \o [k \in 1..Len(x) |-> RealPt(x, h, 1, k, 0, 1)]

\* Mutant of HessPairPoints: _central2 does not reuse g and gg but evaluates
\* f at x + ee[i] and x - ee[i] again for every pair.
HessPairPointsUncached(method, x, h, i, j) ==
    IF method = "complex"
    THEN <<ImagPt(x, h, i, 1, j), ImagPt(x, h, i, 0 - 1, j)>>
    ELSE IF method = "central"
    THEN <<RealPt(x, h, 1, i, 1, j), RealPt(x, h, 1, i, 0 - 1, j),
           RealPt(x, h, 0 - 1, i, 1, j), RealPt(x, h, 0 - 1, i, 0 - 1, j)>>
    ELSE IF method = "central2"
    THEN <<RealPt(x, h, 1, i, 1, j), RealPt(x, h, 0 - 1, i, 0 - 1, j),
           RealPt(x, h, 1, i, 0, j), RealPt(x, h, 0 - 1, i, 0, j)>>
    ELSE <<RealPt(x, h, 1, i, 1, j)>>

\* The points at which a stencil evaluates f for the pair (i, j), in order.
HessPairPoints(method, x, h, i, j) ==
    IF method = "complex"
    THEN <<ImagPt(x, h, i, 1, j), ImagPt(x, h, i, 0 - 1, j)>>
    ELSE IF method = "central"
    THEN <<RealPt(x, h, 1, i, 1, j), RealPt(x, h, 1, i, 0 - 1, j),
           RealPt(x, h, 0 - 1, i, 1, j), RealPt(x, h, 0 - 1, i, 0 - 1, j)>>
    ELSE IF method = "central2"
    THEN <<RealPt(x, h, 1, i, 1, j), RealPt(x, h, 0 - 1, i, 0 - 1, j)>>
    ELSE <<RealPt(x, h, 1, i, 1, j)>>

\* The entry (i, j) of a stencil from the values fv of f at the points of the
\* pair, the cached f0, g, gg, and the divisor d read from hess[j, i].
HessEntry(method, fv, f0, g, gg, i, j, d) ==
    IF method = "complex"
    THEN FDiv(FSub(fv[1][2], fv[2][2]), d)
    ELSE IF method = "central"
    THEN FDiv(FAdd(FSub(FSub(fv[1][1], fv[2][1]), fv[3][1]), fv[4][1]),
              FMul(4 * ONE, d))
    ELSE IF method = "central2"
    THEN FDiv(FAdd(FSub(FSub(FAdd(FAdd(FSub(FSub(fv[1][1], g[i]), g[j]), f0),
                                  fv[2][1]), gg[i]), gg[j]), f0),
              FMul(2 * ONE, d))
    ELSE FDiv(FAdd(FSub(FSub(fv[1][1], g[i]), g[j]), f0), d)

\* Mutant of HessWrite: the computed entry is not copied to its mirror.
HessWriteUpper(hess, i, j, v) == [hess EXCEPT ![i][j] = v]

\* hess[i, j] = v; hess[j, i] = hess[i, j].
HessWrite(hess, i, j, v) == [hess EXCEPT ![i][j] = v, ![j][i] = v]

\* A stencil derivative(f, x, h) of a Hessian that has been entered.  h0 is
\* the step passed by the caller, h the step the loops work with.  reads
\* records each divisor read from hess[j, i], written the entries assigned in
\* the pair loop, evals the points at which f has been evaluated.
NewHess(method, fn, x, h) ==
    [cls |-> "Hessian", method |-> method, fn |-> fn, x |-> x, h0 |-> h,
     h |-> h, pc |-> "start", i |-> 1, j |-> 1, hess |-> <<>>,
     f0 |-> NaN, g |-> <<>>, gg |-> <<>>,
     reads |-> <<>>, written |-> {}, evals |-> <<>>]

\* The coordinates of the points and of the steps of the Hessian stencils.
HessCoords == {0, ONE}

HessStepElts == {ONE \div 4, ONE \div 2, 0 - (ONE \div 2)}

InitHess ==
    /\ gen = NewGen("_step_generator", NoneVal, 0, ONE, 0, FALSE, 0)
    /\ xi = Arr0(0)
    /\ scale = 1
    /\ yielded = <<>>
    /\ cands = <<>>
    /\ \E n \in 1..MaxDim :
          call \in {NewHess(m, fn, x, h) :
                       m \in HessMethods, fn \in HessFunctions,
                       x \in [1..n -> HessCoords], h \in [1..n -> HessStepElts]}

\* The step the loops of a stencil work with: _backward is _forward at -h.
HessStep(method, h) ==
    IF method = "backward" THEN [k \in 1..Len(h) |-> 0 - h[k]] ELSE h

\* The frame after the part of a stencil before its pair loop: hess is filled
\* with the outer product (twice it in _complex), f0, g and gg are evaluated.
HessPrepared(c, h, pts) ==
    [c EXCEPT
        !.pc = "pairs", !.h = h, !.evals = pts,
        !.hess = IF c.method = "complex" THEN Outer2(h) ELSE Outer(h),
        !.f0 = IF pts = <<>> THEN NaN ELSE HessFn(c.fn, pts[1])[1],
        !.g = IF c.method = "central2"
              THEN [k \in 1..Len(h) |-> HessFn(c.fn, pts[2 * k])[1]]
              ELSE IF pts = <<>> THEN <<>>
              ELSE [k \in 1..Len(h) |-> HessFn(c.fn, pts[k + 1])[1]],
        !.gg = IF c.method = "central2"
               THEN [k \in 1..Len(h) |-> HessFn(c.fn, pts[2 * k + 1])[1]]
               ELSE <<>>]

HessStart ==
    /\ call.cls = "Hessian"
    /\ call.pc = "start"
    /\ call' = HessPrepared(call, HessStep(call.method, call.h0),
                   HessPrePoints(call.method, call.x,
                                 HessStep(call.method, call.h0)))
    /\ UNCHANGED <<gen, xi, scale, yielded, cands>>

\* The frame after the body of the pair loop at (i, j): the divisor d is read
\* from hess[j, i], f evaluated at the points pts, the entry assigned and
\* mirrored, and the loops advanced.
HessPairDone(c, d, pts) ==
    [c EXCEPT
        !.hess = HessWrite(c.hess, c.i, c.j,
                     HessEntry(c.method, [k \in 1..Len(pts) |-> HessFn(c.fn, pts[k])],
                               c.f0, c.g, c.gg, c.i, c.j, d)),
        !.reads = Append(c.reads,
                     [i |-> c.i, j |-> c.j, value |-> d,
                      touched |-> <<c.j, c.i>> \in c.written]),
        !.written = c.written \cup {<<c.i, c.j>>, <<c.j, c.i>>},
        !.evals = c.evals \o pts,
        !.i = IF c.j < Len(c.x) THEN c.i ELSE c.i + 1,
        !.j = IF c.j < Len(c.x) THEN c.j + 1 ELSE c.i + 1,
        !.pc = IF c.j = Len(c.x) /\ c.i = Len(c.x) THEN "done" ELSE "pairs"]

HessPair ==
    /\ call.cls = "Hessian"
    /\ call.pc = "pairs"
    /\ call' = HessPairDone(call, call.hess[call.j][call.i],
                   HessPairPoints(call.method, call.x, call.h, call.i, call.j))
    /\ UNCHANGED <<gen, xi, scale, yielded, cands>>

NextHess == HessStart \/ HessPair

SpecHess == InitHess /\ [][NextHess]_vars

(***************************************************************************)
(* Properties of the Hessian stencils (checked under SpecHess).            *)
(***************************************************************************)
\* Every divisor was read from the lower triangle or the diagonal (j >= i)
\* before the pair loop had assigned that entry.
ReadsUntouched ==
    \A r \in 1..Len(call.reads) :
        call.reads[r].j >= call.reads[r].i /\ ~call.reads[r].touched

\* The matrix a finished stencil returns is symmetric, and it has computed
\* each pair (i, j), j >= i, once.
ReturnedSymmetric ==
    call.pc = "done" =>
        /\ \A i \in 1..Len(call.x) : \A j \in 1..Len(call.x) :
              call.hess[i][j] = call.hess[j][i]
        /\ Len(call.reads) = (Len(call.x) * (Len(call.x) + 1)) \div 2
        /\ \A i \in 1..Len(call.x) : \A j \in i..Len(call.x) :
              \E r \in 1..Len(call.reads) :
                 call.reads[r].i = i /\ call.reads[r].j = j

\* C2 as stated: for every method the matrix returned by the stencil is
\* symmetric, only the pairs j >= i are computed, and the divisor read from
\* hess[j, i] is the untouched outer-product value h[i] * h[j].
C2_DivisorIsOuterProduct ==
    call.pc \in {"pairs", "done"} =>
        /\ ReturnedSymmetric
        /\ ReadsUntouched
        /\ \A r \in 1..Len(call.reads) :
              call.reads[r].value =
                 FMul(call.h0[call.reads[r].i], call.h0[call.reads[r].j])

\* C2 amended: for every method the matrix returned by the stencil is
\* symmetric, only the pairs j >= i are computed, and the divisor read from
\* hess[j, i] is the untouched initial value of the entry: h[i] * h[j] for
\* forward, backward, central and central2, 2 * h[i] * h[j] for complex.
C2_SymmetricUntouched ==
    call.pc \in {"pairs", "done"} =>
        /\ ReturnedSymmetric
        /\ ReadsUntouched
        /\ \A r \in 1..Len(call.reads) :
              call.reads[r].value =
                 IF call.method = "complex"
                 THEN FMul(2 * ONE, FMul(call.h0[call.reads[r].i],
                                         call.h0[call.reads[r].j]))
                 ELSE FMul(call.h0[call.reads[r].i], call.h0[call.reads[r].j])

\* Witness of C2: a stencil at a point of two coordinates has returned, its
\* off-diagonal entries overwritten by the computed value.
C2_Witness ==
    /\ call.pc = "done"
    /\ Len(call.x) = 2
    /\ Len(call.reads) = 3
    /\ call.hess[2][1] = call.hess[1][2]
    /\ call.hess[2][1] # call.reads[2].value

(***************************************************************************)
(* Gradient / Jacobian: the stencils _central, _backward, _forward and     *)
(* _complex at one step h.  Each stencil collects one partial per input    *)
(* coordinate, the value of f's shape, and returns np.array(partials).T.   *)
(* An n-dimensional array is a record of its shape and of its elements in  *)
(* row-major order.                                                        *)
(***************************************************************************)
RECURSIVE Size(_)
\* The number of elements of an array of a shape.
Size(shape) == IF shape = <<>> THEN 1 ELSE Head(shape) * Size(Tail(shape))

RECURSIVE Reverse(_)
Reverse(s) == IF s = <<>> THEN <<>> ELSE Append(Reverse(Tail(s)), Head(s))

RECURSIVE Unravel(_, _)
\* The (0-based) multi-index of the row-major flat position k (0-based) in an
\* array of a shape.
Unravel(k, shape) ==
    IF shape = <<>> THEN <<>>
    ELSE <<k \div Size(Tail(shape))>> \o Unravel(k % Size(Tail(shape)), Tail(shape))

RECURSIVE Ravel(_, _)
\* The row-major flat position (0-based) of a multi-index.
Ravel(idx, shape) ==
    IF shape = <<>> THEN 0
    ELSE Head(idx) * Size(Tail(shape)) + Ravel(Tail(idx), Tail(shape))

\* np.array(partials): the partials, all of one shape, stacked along a new
\* first axis.
StackArr(partials) ==
    [shape |-> <<Len(partials)>> \o partials[1].shape,
     data  |-> [k \in 1..(Len(partials) * Len(partials[1].data)) |->
                   partials[((k - 1) \div Len(partials[1].data)) + 1]
                       .data[((k - 1) % Len(partials[1].data)) + 1]]]

\* Mutant of TransposeArr: the stacked array is returned as it is.
TransposeNone(a) == a

\* a.T: the axes of a in reverse order.
TransposeArr(a) ==
    [shape |-> Reverse(a.shape),
     data  |-> [k \in 1..Len(a.data) |->
                   a.data[Ravel(Reverse(Unravel(k - 1, Reverse(a.shape))),
                                a.shape) + 1]]]

\* The target functions of the Gradient stencils, by the shape of their
\* value: a scalar, a vector of three outputs, a 2 x 3 array (one row for each
\* observation).
GradFunctions == {"scalar", "vector", "matrix"}

GradOutShape(fn) ==
    IF fn = "scalar" THEN <<>> ELSE IF fn = "vector" THEN <<3>> ELSE <<2, 3>>

RECURSIVE WeightedSquares(_, _, _)
\* Output o of f at a point: sum over k of (3 * o + k) * z[k]**2.
WeightedSquares(pt, o, k) ==
    IF k = 0 THEN Cx(0)
    ELSE CAdd(WeightedSquares(pt, o, k - 1),
              CMul(Cx((3 * o + k) * ONE), CMul(pt[k], pt[k])))

\* f at a point: an array of complex elements of the shape of f's value.
GradFn(fn, pt) ==
    [shape |-> GradOutShape(fn),
     data  |-> [o \in 1..Size(GradOutShape(fn)) |->
                   WeightedSquares(pt, o, Len(pt))]]

\* The points at which the stencil evaluates f for coordinate i, in order:
\* x + hi and x - hi (central), x - h (backward), x + h (forward), x + ih
\* (complex), with increments = np.identity(n) * h.
GradPoints(method, x, h, i) ==
    IF method = "central"
    THEN <<RealPt(x, h, 1, i, 0, 1), RealPt(x, h, 0 - 1, i, 0, 1)>>
    ELSE IF method = "backward" THEN <<RealPt(x, h, 0 - 1, i, 0, 1)>>
    ELSE IF method = "forward" THEN <<RealPt(x, h, 1, i, 0, 1)>>
    ELSE <<ImagPt(x, h, i, 0, 1)>>

\* The partial for coordinate i from the values fv of f at its points and the
\* cached f0: (f(x + hi) - f(x - hi)) / h2[i], (f0 - f(x - h)) / epsilon[i],
\* (f(x + h) - f0) / epsilon[i], f(x + ih).imag / epsilon[i].
GradPartial(method, fv, f0, h, i) ==
    [shape |-> fv[1].shape,
     data  |-> [o \in 1..Len(fv[1].data) |->
        IF method = "central"
        THEN FDiv(FSub(fv[1].data[o][1], fv[2].data[o][1]), FMul(h[i], 2 * ONE))
        ELSE IF method = "backward"
        THEN FDiv(FSub(f0.data[o][1], fv[1].data[o][1]), h[i])
        ELSE IF method = "forward"
        THEN FDiv(FSub(fv[1].data[o][1], f0.data[o][1]), h[i])
        ELSE FDiv(fv[1].data[o][2], h[i])]]

\* A stencil derivative(f, x, h) of a Gradient that has been entered.
NewGrad(method, fn, x, h) ==
    [cls |-> "Gradient", method |-> method, fn |-> fn, x |-> x, h |-> h,
     pc |-> "start", i |-> 1, f0 |-> NoArr, partials |-> <<>>,
     evals |-> <<>>, ret |-> NoArr]

InitGrad ==
    /\ gen = NewGen("_step_generator", NoneVal, 0, ONE, 0, FALSE, 0)
    /\ xi = Arr0(0)
    /\ scale = 1
    /\ yielded = <<>>
    /\ cands = <<>>
    /\ \E n \in 1..MaxDim :
          call \in {NewGrad(m, fn, x, h) :
                       m \in Methods, fn \in GradFunctions,
                       x \in [1..n -> HessCoords], h \in [1..n -> HessStepElts]}

\* The part of a stencil before its partials: _forward and _backward
\* evaluate f0 = f(x).
GradStart ==
    /\ call.cls = "Gradient"
    /\ call.pc = "start"
    /\ call' = IF call.method \in {"forward", "backward"}
               THEN [call EXCEPT
                        !.pc = "partials",
                        !.f0 = GradFn(call.fn, RealPt(call.x, call.h, 0, 1, 0, 1)),
                        !.evals = <<RealPt(call.x, call.h, 0, 1, 0, 1)>>]
               ELSE [call EXCEPT !.pc = "partials"]
    /\ UNCHANGED <<gen, xi, scale, yielded, cands>>

\* The frame after one element of the list comprehension "partials".
GradPartialDone(c, pts) ==
    [c EXCEPT
        !.partials = Append(c.partials,
            GradPartial(c.method, [k \in 1..Len(pts) |-> GradFn(c.fn, pts[k])],
                        c.f0, c.h, c.i)),
        !.evals = c.evals \o pts,
        !.i = c.i + 1,
        !.pc = IF c.i = Len(c.x) THEN "collected" ELSE "partials"]

GradStep ==
    /\ call.cls = "Gradient"
    /\ call.pc = "partials"
    /\ call' = GradPartialDone(call,
                   GradPoints(call.method, call.x, call.h, call.i))
    /\ UNCHANGED <<gen, xi, scale, yielded, cands>>

\* return np.array(partials).T
GradReturn ==
    /\ call.cls = "Gradient"
    /\ call.pc = "collected"
    /\ call' = [call EXCEPT !.pc = "done",
                            !.ret = TransposeArr(StackArr(call.partials))]
    /\ UNCHANGED <<gen, xi, scale, yielded, cands>>

NextGrad == GradStart \/ GradStep \/ GradReturn

SpecGrad == InitGrad /\ [][NextGrad]_vars

(***************************************************************************)
(* Properties of the Gradient stencils (checked under SpecGrad).           *)
(***************************************************************************)
\* C11 as stated: in the array a Gradient/Jacobian stencil returns, the
\* earlier axis indexes the perturbed input coordinate and the last axes index
\* the output of f: the partial of output o for coordinate i is at [i, o].
C11_LastAxisIsOutput ==
    call.pc = "done" =>
        /\ call.ret.shape = <<Len(call.x)>> \o GradOutShape(call.fn)
        /\ \A i \in 1..Len(call.x) :
              \A o \in 0..(Size(GradOutShape(call.fn)) - 1) :
                 call.ret.data[Ravel(<<i - 1>> \o Unravel(o, GradOutShape(call.fn)),
                                     call.ret.shape) + 1]
                    = call.partials[i].data[o + 1]

\* C11 amended: in the array a Gradient/Jacobian stencil returns (all four
\* methods), the last axis indexes the perturbed input coordinate and the
\* earlier axes index the output of f, in reverse order of f's axes: for f
\* of shape (a, b) the result has shape (b, a, n), rank 3, and the partial of
\* output [p, q] for coordinate i is at [q, p, i]; for a scalar f the result
\* has shape (n,).
C11_LastAxisIsInput ==
    call.pc = "done" =>
        /\ call.ret.shape = Reverse(GradOutShape(call.fn)) \o <<Len(call.x)>>
        /\ Len(GradOutShape(call.fn)) = 2 => Len(call.ret.shape) = 3
        /\ \A i \in 1..Len(call.x) :
              \A o \in 0..(Size(GradOutShape(call.fn)) - 1) :
                 call.ret.data[Ravel(Reverse(Unravel(o, GradOutShape(call.fn)))
                                        \o <<i - 1>>, call.ret.shape) + 1]
                    = call.partials[i].data[o + 1]

\* Witness of C11: a stencil has returned the rank-3 array of a function of
\* two coordinates with a 2 x 3 value, and the transposition moved elements.
C11_Witness ==
    /\ call.pc = "done"
    /\ call.fn = "matrix"
    /\ Len(call.x) = 2
    /\ call.ret.shape = <<3, 2, 2>>
    /\ call.ret.data # StackArr(call.partials).data

(***************************************************************************)
(* Properties of the extrapolating branch of _extrapolate (checked under   *)
(* SpecExtrapolate).                                                       *)
(***************************************************************************)
\* _extrapolate has returned from an extrapolation (3 or more raw estimates).
Extrapolated ==
    /\ call.pc = "returned"
    /\ Len(call.results) >= 3
    /\ call.extr.kind = "value"

\* C12 as stated: after an extrapolation the index field of info holds, for
\* each output element, the row of the extrapolated sequence its value was
\* selected from, a value in 0..rows-1, also when the output has more than one
\* element.
C12_IndexIsRow ==
    Extrapolated =>
        \A c \in 1..Len(call.extr.index) :
            /\ call.extr.index[c] \in 0..(Len(call.extr.cand_err) - 1)
            /\ call.extr.der.data[c] = call.extr.cand_der[call.extr.index[c] + 1][c]

\* The rows of column c of the candidates whose error is the least of the
\* column.
TiedRows(c) ==
    {r \in 1..Len(call.extr.cand_err) :
        /\ ~IsNaN(call.extr.cand_err[r][c])
        /\ \A q \in 1..Len(call.extr.cand_err) :
              IsNaN(call.extr.cand_err[q][c])
              \/ call.extr.cand_err[r][c] <= call.extr.cand_err[q][c]}

\* The row (1-based) and the column that the flat index of output element c
\* stands for.
SelectedRow(c) == (call.extr.index[c] \div Len(call.extr.index)) + 1

SelectedCol(c) == (call.extr.index[c] % Len(call.extr.index)) + 1

FirstPassRows(n) == IF n - 2 > 1 THEN n - 3 ELSE n - 2

\* The number of rows selection chooses from for n raw estimates.
CandidateRows(n) ==
    IF FirstPassRows(n) > 2 THEN FirstPassRows(n) - 2 ELSE FirstPassRows(n)

\* C14 as stated, in its count of candidate rows: N - 2 rows for N in {3, 4}
\* and N - 4 rows for N >= 5 raw estimates.
C14_CandidateRowsAsStated ==
    Extrapolated =>
        Len(call.extr.cand_err)
            = IF Len(call.results) \in {3, 4}
              THEN Len(call.results) - 2 ELSE Len(call.results) - 4

\* C14, amended: for N >= 3 raw estimates the symmetric pass runs over the
\* N - 2 sliding triples (r[i], r[i+1], r[i+2]) in input order and returns
\* N - 2 rows for N = 3 and N - 3 rows for N >= 4; the second pass is applied
\* if and only if the first pass returned more than 2 rows; hence selection
\* chooses from 1 row for N in {3, 4}, from 2 rows for N = 5 and from N - 5
\* rows for N >= 6, which is always at least 1.  Where only the first pass
\* ran, row r of the candidate estimates is the transform of the triple
\* (r[r], r[r+1], r[r+2]) of the input.
C14_CandidateRows ==
    Extrapolated =>
        /\ call.extr.first_rows = FirstPassRows(Len(call.results))
        /\ call.extr.passes = (IF call.extr.first_rows > 2 THEN 2 ELSE 1)
        /\ Len(call.extr.cand_err) = CandidateRows(Len(call.results))
        /\ Len(call.extr.cand_der) = Len(call.extr.cand_err)
        /\ Len(call.extr.cand_err)
              = (IF Len(call.results) \in {3, 4} THEN 1
                 ELSE IF Len(call.results) = 5 THEN 2
                 ELSE Len(call.results) - 5)
        /\ Len(call.extr.cand_err) >= 1
        /\ call.extr.passes = 1 =>
              \A r \in 1..Len(call.extr.cand_der) :
                  \A c \in 1..Len(call.extr.cand_der[r]) :
                      call.extr.cand_der[r][c]
                          = Dea3Elt(call.results[r].data[c],
                                    call.results[r + 1].data[c],
                                    call.results[r + 2].data[c])[1]

\* Witness of C14: six raw estimates, of which the first pass returned three
\* rows and the second pass left one row to choose from.
C14_Witness ==
    /\ Extrapolated
    /\ Len(call.results) = 6
    /\ call.extr.first_rows = 3
    /\ call.extr.passes = 2
    /\ Len(call.extr.cand_err) = 1

\* The position of the pair (i, j), j >= i, in the order in which the pair
\* loop of a stencil over n axes visits the pairs.
PairRank(n, i, j) == ((i - 1) * n - ((i - 1) * (i - 2)) \div 2) + (j - i + 1)

\* The number of evaluations of f in the log that are at the point of entry q.
EvalCount(q) ==
    Cardinality({k \in 1..Len(call.evals) : call.evals[k] = call.evals[q]})

\* C15: for one step at an n-dimensional point, _central2 evaluates f(x) once
\* and f(x + e_i), f(x - e_i) once per axis i before the pair loop, and in
\* the pair loop only f(x + e_i + e_j) and f(x - e_i - e_j) for each pair
\* i <= j, in all 1 + 2n + n(n+1) evaluations; the pair loop never evaluates
\* f at x, x + e_i or x - e_i again.
C15_Central2Evaluations ==
    (call.cls = "Hessian" /\ call.method = "central2" /\ call.pc # "start") =>
        /\ Len(call.evals) >= 1 + 2 * Len(call.x)
        /\ call.evals[1] = RealPt(call.x, call.h, 0, 1, 0, 1)
        /\ \A i \in 1..Len(call.x) :
              /\ call.evals[2 * i] = RealPt(call.x, call.h, 1, i, 0, 1)
              /\ call.evals[2 * i + 1] = RealPt(call.x, call.h, 0 - 1, i, 0, 1)
        /\ \A k \in (2 * Len(call.x) + 2)..Len(call.evals) :
              \A q \in 1..(2 * Len(call.x) + 1) : call.evals[k] # call.evals[q]
        /\ call.pc = "done" =>
              /\ Len(call.evals)
                    = 1 + 2 * Len(call.x) + Len(call.x) * (Len(call.x) + 1)
              /\ \A q \in 1..(2 * Len(call.x) + 1) : EvalCount(q) = 1
              /\ \A i \in 1..Len(call.x) : \A j \in i..Len(call.x) :
                    /\ call.evals[2 * Len(call.x)
                                  + 2 * PairRank(Len(call.x), i, j)]
                          = RealPt(call.x, call.h, 1, i, 1, j)
                    /\ call.evals[2 * Len(call.x)
                                  + 2 * PairRank(Len(call.x), i, j) + 1]
                          = RealPt(call.x, call.h, 0 - 1, i, 0 - 1, j)

\* Witness of C15: _central2 has returned at a point of MaxDim axes.
C15_Witness ==
    /\ call.cls = "Hessian"
    /\ call.method = "central2"
    /\ call.pc = "done"
    /\ Len(call.x) = MaxDim
    /\ Len(call.evals) = 1 + 2 * MaxDim + MaxDim * (MaxDim + 1)

(***************************************************************************)
(* Successive public calls of one Derivative object.  The object keeps its *)
(* step source, method, f and full_output; every call binds its own point  *)
(* and asks the step source for a new generator.                           *)
(***************************************************************************)
\* Largest number of successive calls of one object.
MaxCalls == 3

\* The step sources of the objects that are called repeatedly.
RepeatSources ==
    {NewGen("StepsGenerator", b, n, 4 * ONE, 0 - 1, TRUE, 0) :
        b \in {NoneVal, Scalar(Tenth), Arr1(<<5, 24>>)}, n \in 0..MaxNumSteps}
    \cup {NewGen("StepsGenerator2", NoneVal, n, ONE, 0, TRUE, 0) : n \in LogSteps}
    \cup {NewGen("_step_generator", b, 0, ONE, 0, FALSE, 0) :
        b \in {NoneVal, Scalar(ONE \div 2)}}

\* The points of the repeated calls.
RepeatPoints == {Arr0(ONE), Arr1(<<0 - (2 * ONE)>>), Arr1(<<ONE, 0>>)}

\* The frame of the round-th call of an object, with the record runs of the
\* calls that went before: of each its point, the steps generated, the
\* evaluation points of f, the raw estimates and the outcome.
NewRepeat(method, fn, full, round, runs) ==
    [method |-> method, fn |-> fn, full_output |-> full, failAt |-> 0,
     pc |-> "steps", h |-> NoArr, fvals |-> <<>>, results |-> <<>>,
     nevals |-> 0, evals |-> <<>>, extr |-> NoResult, ret |-> NoResult,
     round |-> round, runs |-> runs]

\* Mutant of FreshGen: the generator of the previous call is kept.
FreshGenKept(g) == g

\* steps(xi, self.scale): calling the step source creates a new generator,
\* whose body has not started; the fields of the step source are as they
\* were constructed.
FreshGen(g) ==
    [g EXCEPT !.pc = "start", !.delta = NoneVal, !.i = 0, !.steps = <<>>]

InitRepeat ==
    /\ gen \in RepeatSources
    /\ xi \in RepeatPoints
    /\ call \in {NewRepeat(m, fn, TRUE, 1, <<>>) :
                    m \in Methods, fn \in Functions}
    /\ scale = DefaultScale(call.method, 1)
    /\ yielded = <<>>
    /\ cands = <<>>

\* What a finished call leaves on record.
RunRecord(c, x, steps) ==
    [x |-> x, steps |-> steps, evals |-> c.evals, results |-> c.results,
     pc |-> c.pc, ret |-> c.ret]

\* The next call of the same object, at any point: xi = np.asarray(x), the
\* functions are bound again and a new generator is created.
RepeatCall ==
    /\ call.pc \in {"returned", "raised"}
    /\ call.round < MaxCalls
    /\ xi' \in RepeatPoints
    /\ gen' = FreshGen(gen)
    /\ call' = NewRepeat(call.method, call.fn, call.full_output,
                         call.round + 1,
                         Append(call.runs, RunRecord(call, xi, yielded)))
    /\ yielded' = <<>>
    /\ cands' = <<>>
    /\ UNCHANGED scale

NextRepeat == CallGenStart \/ CallGenIter \/ CallEval \/ CallFinish \/ RepeatCall

SpecRepeat == InitRepeat /\ [][NextRepeat]_vars

\* The raw estimate of the stencil at the step h, from f at its points.
EstimateAt(method, fn, x, h) ==
    DerivativeValue(method,
        [p \in 1..Len(DerivativePoints(method, x, h)) |->
            FnArr(fn, DerivativePoints(method, x, h)[p])], x, h)

\* C16: a call that has ended agrees with every earlier call of the same
\* object at the same point, whatever calls lay between them, in the ordered
\* steps generated, the ordered evaluation points of f and the outcome; and
\* the raw estimates handed to the extrapolation are, in order, those of the
\* steps in the order of their generation.
C16_RepeatedCallsAgree ==
    call.pc \in {"returned", "raised"} =>
        /\ \A r \in 1..Len(call.runs) :
              call.runs[r].x = xi =>
                  /\ call.runs[r].steps = yielded
                  /\ call.runs[r].evals = call.evals
                  /\ call.runs[r].results = call.results
                  /\ call.runs[r].pc = call.pc
                  /\ call.runs[r].ret = call.ret
        /\ call.pc = "returned" =>
              /\ Len(call.results) = Len(yielded)
              /\ \A k \in 1..Len(yielded) :
                    call.results[k]
                        = EstimateAt(call.method, call.fn, xi, yielded[k])
              /\ call.extr = Extrapolate(call.results)

\* Witness of C16: the third call of an object has returned at the point of
\* its first call, after a second call at another point, each of the two
\* with at least three steps.
C16_Witness ==
    /\ call.pc = "returned"
    /\ Len(call.runs) = 2
    /\ call.runs[1].x = xi
    /\ call.runs[2].x # xi
    /\ call.runs[2].pc = "returned"
    /\ Len(yielded) >= 3
    /\ call.runs[1].steps = yielded
    /\ call.runs[2].steps # yielded

RECURSIVE IntPow(_, _)
\* b to the power e for integers, with b^0 = 1 for every b.
IntPow(b, e) == IF e = 0 THEN 1 ELSE b * IntPow(b, e - 1)

RECURSIVE MomentSum(_, _, _, _)
\* The sum of num[k] * (k - 1 - ho)^m over the first cnt entries of num: den
\* times the m-th moment of the weights num / den at the offsets -ho..ho.
MomentSum(num, ho, m, cnt) ==
    IF cnt = 0 THEN 0
    ELSE MomentSum(num, ho, m, cnt - 1) + num[cnt] * IntPow(cnt - 1 - ho, m)

\* An NDerivative object whose weights came from a precomputed table.
TableObject ==
    /\ call.cls = "NDerivative"
    /\ call.pc \in {"constructed", "evaluated"}
    /\ call.n \in {1, 2}
    /\ call.order \in {3, 5, 7, 9}

\* C17: each precomputed weight table of _weights (n in {1, 2}, order in
\* {3, 5, 7, 9}), read as the exact rationals w_k = num_k / den at the offsets
\* k = -floor(order/2)..floor(order/2), has order entries and satisfies the
\* moment conditions: the sum of w_k * k^m is n! for m = n and 0 for every
\* other m in 0..order-1; the weights are antisymmetric for n = 1 and
\* symmetric for n = 2; and the object holds these weights, rounded.
C17_MomentConditions ==
    TableObject =>
        /\ Len(WeightTable(call.n, call.order).num) = call.order
        /\ WeightTable(call.n, call.order).den > 0
        /\ \A m \in 0..(call.order - 1) :
              MomentSum(WeightTable(call.n, call.order).num, call.order \div 2,
                        m, call.order)
                  = (IF m = call.n
                     THEN Factorial(call.n) * WeightTable(call.n, call.order).den
                     ELSE 0)
        /\ \A k \in 1..call.order :
              /\ WeightTable(call.n, call.order).num[k]
                    = (IF call.n = 1 THEN 0 - 1 ELSE 1)
                      * WeightTable(call.n, call.order).num[call.order + 1 - k]
              /\ call.weights[k]
                    = RatToFloat(WeightTable(call.n, call.order).num[k],
                                 WeightTable(call.n, call.order).den)

\* Witness of C17: an object for the second derivative with the nine-point
\* table has been constructed.
C17_Witness ==
    /\ TableObject
    /\ call.n = 2
    /\ call.order = 9
    /\ Len(call.weights) = 9
    /\ MomentSum(WeightTable(2, 9).num, 4, 2, 9) = 2 * 5040

====
